---- MODULE Spec2Model ----
(***************************************************************************)
(* Progress tracking of the autonomous coding agent (progress.py).         *)
(*                                                                         *)
(* The manifest file feature_list.json and the cache file .progress_cache  *)
(* are modelled by the JSON value they hold, abstracted to the distinctions *)
(* the code makes (list / object / scalar, dict or literal element, the     *)
(* truthiness of "passes", the Python type of "count", ...).                *)
(* A sink attempt is recorded as the record that is posted.                 *)
(***************************************************************************)
EXTENDS Integers, Sequences, FiniteSets, TLC

VARIABLES
    manifest,            \* content of <project_dir>/feature_list.json
    cache,               \* content of <project_dir>/.progress_cache
    TELEGRAM_BOT_TOKEN,  \* TRUE iff the environment value is set and non-empty
    TELEGRAM_CHAT_ID,    \* TRUE iff the environment value is set and non-empty
    WEBHOOK_URL,         \* TRUE iff the environment value is set and non-empty
    trace,               \* the runs of print_progress_summary since the manifest last changed
    milestones,          \* milestone numbers of all chat delivery attempts, oldest first
    call                 \* a direct call of one function: its arguments and its outcome

vars == <<manifest, cache, TELEGRAM_BOT_TOKEN, TELEGRAM_CHAT_ID, WEBHOOK_URL,
          trace, milestones, call>>

---------------------------------------------------------------------------
(* Bounds of the model.                                                    *)

\* longest manifest list whose records are enumerated kind by kind
MaxLen == 2
\* length of the long manifests (a passing prefix followed by failing records)
MaxTotal == 20
\* runs of print_progress_summary followed between two manifest changes
MaxRuns == 2
\* largest count passed to check_telegram_milestone in a direct call
MaxCount == 21
\* longest completed_tests list passed to check_telegram_milestone in a direct call
MaxCompleted == 6

---------------------------------------------------------------------------
(* Program constants.                                                      *)

TELEGRAM_MILESTONE_INTERVAL == 10
\* completed_tests[-5:]
RecentShown == 5

---------------------------------------------------------------------------
(* Manifest records.  isDict: the element is a JSON object.  passes: the   *)
(* value under "passes" ("absent", the booleans, "one" for a truthy        *)
(* non-boolean such as 1 or "no", "zero" for a falsy non-boolean such as 0 *)
(* or null).  description: "absent", "str", or "int" for a value without   *)
(* len().  category: TRUE iff a non-empty category is present.             *)

Item(d, p, desc, cat) == [isDict |-> d, passes |-> p, description |-> desc, category |-> cat]

Pass    == Item(TRUE, "true", "str", TRUE)
PassNum == Item(TRUE, "true", "int", FALSE)
Fail    == Item(TRUE, "false", "str", TRUE)
NoField == Item(TRUE, "absent", "str", FALSE)
Truthy  == Item(TRUE, "one", "str", FALSE)
Falsy   == Item(TRUE, "zero", "str", FALSE)
Literal == Item(FALSE, "absent", "absent", FALSE)

ItemKinds == {Pass, PassNum, Fail, NoField, Truthy, Falsy, Literal}

\* Manifest file contents.  kind:
\*   "absent"        no file
\*   "unparsable"    not JSON
\*   "list"          a bare list, items
\*   "features_list" an object whose "features" is a list, items
\*   "features_str"  an object whose "features" is a string or an object: len() is
\*                   the number of characters or keys, iteration yields strings (items
\*                   are literals)
\*   "features_int"  an object whose "features" is a number or null: no len()
\*   "object"        an object without "features"
\*   "scalar"        a JSON number, string, boolean or null
Manifest(k, items) == [kind |-> k, items |-> items]

\* test.get("passes", False) taken as a condition
IsTruthy(item) == item.passes \in {"true", "one"}

---------------------------------------------------------------------------
(* Cache file contents.  kind: "absent", "unparsable" (not JSON), "nondict" *)
(* (JSON, but not an object: .get fails), "dict".  For a dict: countType is *)
(* "absent", "int", or "str" (a string or null: not comparable with an int);*)
(* idxType is "absent", "list" (of integers), or "int" (a number, or a list *)
(* holding lists: set() fails).                                             *)

Cache(k, ct, c, it, idx) ==
    [kind |-> k, countType |-> ct, count |-> c, idxType |-> it, indices |-> idx]

AbsentCache == Cache("absent", "absent", 0, "absent", <<>>)
UnparsableCache == Cache("unparsable", "absent", 0, "absent", <<>>)
NonDictCache == Cache("nondict", "absent", 0, "absent", <<>>)

\* a slip: the count written is the length of the index list
WrittenCacheLen(passing, current_passing_indices) ==
    Cache("dict", "int", Len(current_passing_indices), "list", current_passing_indices)

\* json.dumps({"count": passing, "passing_indices": current_passing_indices})
WrittenCache(passing, current_passing_indices) ==
    Cache("dict", "int", passing, "list", current_passing_indices)

Range(s) == {s[i] : i \in DOMAIN s}

---------------------------------------------------------------------------
(* count_passing_tests                                                     *)

\* the value bound to `tests` in count_passing_tests; "noLen" when len(tests) fails
CountedTests(m) ==
    CASE m.kind \in {"list", "features_list", "features_str"} -> m.items
      [] m.kind = "features_int" -> "noLen"
      [] OTHER -> <<>>

RECURSIVE SumPassing(_)
\* sum(1 for test in tests if isinstance(test, dict) and test.get("passes", False))
SumPassing(tests) ==
    IF tests = <<>> THEN 0
    ELSE (IF Head(tests).isDict /\ IsTruthy(Head(tests)) THEN 1 ELSE 0) + SumPassing(Tail(tests))

\* (passing, total), or raised = TRUE when an exception leaves the function:
\* only json.JSONDecodeError and IOError are caught
count_passing_tests(m) ==
    IF m.kind \in {"absent", "unparsable"}
    THEN [raised |-> FALSE, passing |-> 0, total |-> 0]
    ELSE IF m.kind = "features_int"
    THEN [raised |-> TRUE, passing |-> 0, total |-> 0]
    ELSE [raised |-> FALSE, passing |-> SumPassing(CountedTests(m)),
          total |-> Len(CountedTests(m))]

---------------------------------------------------------------------------
(* send_telegram_notification, check_telegram_milestone                    *)

\* the attempt made for a message; delivered is urlopen's outcome, which only
\* decides the return value and the console line
send_telegram_notification(message, delivered) ==
    IF ~TELEGRAM_BOT_TOKEN \/ ~TELEGRAM_CHAT_ID
    THEN <<>>
    ELSE <<[sink |-> "chat", message |-> message, delivered |-> delivered]>>

\* completed_tests[-5:] if len(completed_tests) > 5 else completed_tests
Recent(completed_tests) ==
    IF Len(completed_tests) > RecentShown
    THEN SubSeq(completed_tests, Len(completed_tests) - RecentShown + 1, Len(completed_tests))
    ELSE completed_tests

\* test[:60] + "..." if len(test) > 60 else test
Shown(test) == IF test = "long" THEN "trunc" ELSE test

\* a slip: >= in the place of > in the milestone comparison
check_telegram_milestone_geq(passing, previous, total, completed_tests, delivered) ==
    IF ~TELEGRAM_BOT_TOKEN \/ ~TELEGRAM_CHAT_ID
    THEN [raised |-> FALSE, sent |-> <<>>]
    ELSE LET previous_milestone ==
                 (previous \div TELEGRAM_MILESTONE_INTERVAL) * TELEGRAM_MILESTONE_INTERVAL
             current_milestone ==
                 (passing \div TELEGRAM_MILESTONE_INTERVAL) * TELEGRAM_MILESTONE_INTERVAL
             recent == Recent(completed_tests)
         IN  IF current_milestone >= previous_milestone
             THEN [raised |-> FALSE,
                   sent |-> send_telegram_notification(
                                [passing |-> passing, total |-> total,
                                 milestone |-> current_milestone,
                                 recent |-> [i \in DOMAIN recent |-> Shown(recent[i])]],
                                delivered)]
             ELSE [raised |-> FALSE, sent |-> <<>>]

\* a slip: the milestone is compared with 0, not with the previous milestone
check_telegram_milestone_any(passing, previous, total, completed_tests, delivered) ==
    IF ~TELEGRAM_BOT_TOKEN \/ ~TELEGRAM_CHAT_ID
    THEN [raised |-> FALSE, sent |-> <<>>]
    ELSE LET current_milestone ==
                 (passing \div TELEGRAM_MILESTONE_INTERVAL) * TELEGRAM_MILESTONE_INTERVAL
             recent == Recent(completed_tests)
         IN  IF current_milestone > 0
             THEN IF \E i \in DOMAIN recent : recent[i] = "int"
                  THEN [raised |-> TRUE, sent |-> <<>>]
                  ELSE [raised |-> FALSE,
                        sent |-> send_telegram_notification(
                                     [passing |-> passing, total |-> total,
                                      milestone |-> current_milestone,
                                      recent |-> [i \in DOMAIN recent |-> Shown(recent[i])]],
                                     delivered)]
             ELSE [raised |-> FALSE, sent |-> <<>>]

\* [raised, sent]: the chat attempts of one call.  An entry of completed_tests
\* is "str" (at most 60 characters), "long", or "int" (no len(): TypeError)
check_telegram_milestone(passing, previous, total, completed_tests, delivered) ==
    IF ~TELEGRAM_BOT_TOKEN \/ ~TELEGRAM_CHAT_ID
    THEN [raised |-> FALSE, sent |-> <<>>]
    ELSE LET previous_milestone ==
                 (previous \div TELEGRAM_MILESTONE_INTERVAL) * TELEGRAM_MILESTONE_INTERVAL
             current_milestone ==
                 (passing \div TELEGRAM_MILESTONE_INTERVAL) * TELEGRAM_MILESTONE_INTERVAL
             recent == Recent(completed_tests)
         IN  IF current_milestone > previous_milestone
             THEN IF \E i \in DOMAIN recent : recent[i] = "int"
                  THEN [raised |-> TRUE, sent |-> <<>>]
                  ELSE [raised |-> FALSE,
                        sent |-> send_telegram_notification(
                                     [passing |-> passing, total |-> total,
                                      milestone |-> current_milestone,
                                      recent |-> [i \in DOMAIN recent |-> Shown(recent[i])]],
                                     delivered)]
             ELSE [raised |-> FALSE, sent |-> <<>>]

---------------------------------------------------------------------------
(* send_progress_webhook                                                   *)

\* a slip: the except clause does not reset previous
ReadCacheKeepCount(c) ==
    IF c.kind = "dict"
    THEN [previousType |-> IF c.countType = "str" THEN "str" ELSE "int",
          previous |-> IF c.countType = "int" THEN c.count ELSE 0,
          previous_passing_tests |-> IF c.idxType = "list" THEN Range(c.indices) ELSE {}]
    ELSE [previousType |-> "int", previous |-> 0, previous_passing_tests |-> {}]

\* previous and previous_passing_tests after the cache is read; previousType
\* is "str" when previous is not comparable with an integer
ReadCache(c) ==
    IF c.kind = "dict" /\ c.idxType # "int"
    THEN [previousType |-> IF c.countType = "str" THEN "str" ELSE "int",
          previous |-> IF c.countType = "int" THEN c.count ELSE 0,
          previous_passing_tests |-> IF c.idxType = "list" THEN Range(c.indices) ELSE {}]
    ELSE [previousType |-> "int", previous |-> 0, previous_passing_tests |-> {}]

\* what `for i, test in enumerate(tests)` walks through in send_progress_webhook,
\* where tests is the loaded JSON value itself: the records of a bare list, the
\* keys of an object (strings), nothing when the file is absent or json.load fails
EnumeratedTests(m) ==
    CASE m.kind = "list" -> m.items
      [] m.kind \in {"features_list", "features_str", "features_int"} -> <<Literal>>
      [] OTHER -> <<>>

\* the entry appended to completed_tests for a newly passing record
Completed(test) ==
    IF test.category THEN "str"
    ELSE IF test.description = "absent" THEN "str" ELSE test.description

RECURSIVE ScanTests(_, _, _)
\* the loop body from position i (0-based) on: [indices, completed]; test.get on
\* an element that is no dict raises, which ends the loop (bare except)
ScanTests(tests, i, previous_passing_tests) ==
    IF i >= Len(tests) \/ ~tests[i + 1].isDict
    THEN [indices |-> <<>>, completed |-> <<>>]
    ELSE LET rest == ScanTests(tests, i + 1, previous_passing_tests)
         IN  IF IsTruthy(tests[i + 1])
             THEN [indices |-> <<i>> \o rest.indices,
                   completed |-> (IF i \notin previous_passing_tests
                                  THEN <<Completed(tests[i + 1])>> ELSE <<>>)
                                 \o rest.completed]
             ELSE rest

\* the n8n post; previous_passing and tests_completed_this_session as in the payload
WebhookPost(passing, total, previous, completed_tests, delivered) ==
    IF WEBHOOK_URL
    THEN <<[sink |-> "webhook",
            message |-> [passing |-> passing, total |-> total,
                         previous_passing |-> previous,
                         tests_completed_this_session |-> passing - previous,
                         completed_tests |-> completed_tests],
            delivered |-> delivered]>>
    ELSE <<>>

\* a slip: the else branch writes without testing cache_file.exists()
InitialWriteAlways(passing, c, m) ==
    WrittenCache(passing, ScanTests(EnumeratedTests(m), 0, {}).indices)

\* a slip: the else branch is left out
InitialWriteNever(passing, c, m) == c

\* the else branch: the cache file after "Update cache even if no change (for
\* initial state)"; the second loop collects the indices only
InitialWrite(passing, c, m) ==
    IF c.kind = "absent"
    THEN WrittenCache(passing, ScanTests(EnumeratedTests(m), 0, {}).indices)
    ELSE c

\* [raised, cache, sent]: the cache file and the sink attempts when the call ends
send_progress_webhook(passing, total, c, m, tgOk, whOk) ==
    LET rd == ReadCache(c)
        scan == ScanTests(EnumeratedTests(m), 0, rd.previous_passing_tests)
    IN  IF rd.previousType = "str"
        THEN [raised |-> TRUE, cache |-> c, sent |-> <<>>]
        ELSE IF passing > rd.previous
        THEN LET tg == check_telegram_milestone(passing, rd.previous, total,
                                                scan.completed, tgOk)
             IN  IF tg.raised
                 THEN [raised |-> TRUE, cache |-> c, sent |-> <<>>]
                 ELSE [raised |-> FALSE,
                       cache |-> WrittenCache(passing, scan.indices),
                       sent |-> tg.sent \o WebhookPost(passing, total, rd.previous,
                                                       scan.completed, whOk)]
        ELSE [raised |-> FALSE, cache |-> InitialWrite(passing, c, m), sent |-> <<>>]

---------------------------------------------------------------------------
(* The manifests and caches the runs start from.                           *)

SeqsUpTo(S, n) == UNION {[1..k -> S] : k \in 0..n}

\* k passing records (the k-th one is `last`) followed by failing ones
Long(k, last) ==
    [i \in 1..MaxTotal |-> IF i < k THEN Pass ELSE IF i = k THEN last ELSE Fail]

\* passing counts at and next to the multiples of the milestone interval
NearMilestone ==
    {k \in 0..MaxTotal : k % TELEGRAM_MILESTONE_INTERVAL
                            \in {0, 1, TELEGRAM_MILESTONE_INTERVAL - 1}}

ShortLists == SeqsUpTo({Pass, Fail, Literal}, MaxLen)

LongLists == {Long(k, last) : k \in NearMilestone, last \in {Pass, PassNum}}

Manifests ==
    {Manifest("list", s) : s \in ShortLists \cup LongLists}
    \cup {Manifest("features_list", s) : s \in ShortLists \cup {Long(k, Pass) : k \in NearMilestone}}
    \cup {Manifest(k, <<>>) : k \in {"absent", "unparsable", "features_int", "object", "scalar"}}
    \cup {Manifest("features_str", <<Literal>>)}

\* cache files found at the start: none, damaged ones, and ones of the right shape
InitCaches ==
    {AbsentCache, UnparsableCache, NonDictCache,
     Cache("dict", "absent", 0, "absent", <<>>),
     Cache("dict", "str", 0, "list", <<>>),
     Cache("dict", "int", TELEGRAM_MILESTONE_INTERVAL + 2, "int", <<>>),
     Cache("dict", "int", 1, "list", <<0>>)}

NoCall == [op |-> "none"]

---------------------------------------------------------------------------
(* The full cycle.                                                         *)

Init ==
    /\ manifest = Manifest("absent", <<>>)
    /\ cache \in InitCaches
    /\ TELEGRAM_BOT_TOKEN \in BOOLEAN
    /\ TELEGRAM_CHAT_ID \in BOOLEAN
    /\ WEBHOOK_URL \in BOOLEAN
    /\ trace = <<>>
    /\ milestones = <<>>
    /\ call = NoCall

\* the milestone numbers of the chat attempts among sent
ChatMilestones(sent) ==
    IF sent # <<>> /\ sent[1].sink = "chat" THEN <<sent[1].message.milestone>> ELSE <<>>

\* one run: the outcome of print_progress_summary on manifest m and cache c.
\* console is the line printed: "progress", "not_created", or "none" when
\* count_passing_tests raised before anything was printed
print_progress_summary(m, c, tgOk, whOk) ==
    LET r == count_passing_tests(m)
        w == send_progress_webhook(r.passing, r.total, c, m, tgOk, whOk)
    IN  IF r.raised
        THEN [before |-> c, after |-> c, passing |-> 0, total |-> 0, called |-> FALSE,
              sent |-> <<>>, raised |-> TRUE, console |-> "none"]
        ELSE IF r.total > 0
        THEN [before |-> c, after |-> w.cache, passing |-> r.passing, total |-> r.total,
              called |-> TRUE, sent |-> w.sent, raised |-> w.raised, console |-> "progress"]
        ELSE [before |-> c, after |-> c, passing |-> r.passing, total |-> r.total,
              called |-> FALSE, sent |-> <<>>, raised |-> FALSE, console |-> "not_created"]

\* the orchestrator calls print_progress_summary(project_dir)
PrintProgressSummary ==
    /\ Len(trace) < MaxRuns
    /\ \E tgOk \in BOOLEAN, whOk \in BOOLEAN :
         LET run == print_progress_summary(manifest, cache, tgOk, whOk)
         IN  /\ cache' = run.after
             /\ trace' = Append(trace, run)
             /\ milestones' = milestones \o ChatMilestones(run.sent)
    /\ UNCHANGED <<manifest, TELEGRAM_BOT_TOKEN, TELEGRAM_CHAT_ID, WEBHOOK_URL, call>>

\* the agent (an external writer) replaces feature_list.json
ManifestChange ==
    /\ \E m \in Manifests :
         /\ m # manifest
         /\ manifest' = m
    /\ trace' = <<>>
    /\ UNCHANGED <<cache, TELEGRAM_BOT_TOKEN, TELEGRAM_CHAT_ID, WEBHOOK_URL, milestones, call>>

Next == PrintProgressSummary \/ ManifestChange

Spec == Init /\ [][Next]_vars

---------------------------------------------------------------------------
(* count_passing_tests called on its own, on every manifest shape.         *)

CountManifests ==
    {Manifest(k, s) : k \in {"list", "features_list"}, s \in SeqsUpTo(ItemKinds, MaxLen)}
    \cup {Manifest("features_str", s) : s \in SeqsUpTo({Literal}, MaxLen)}
    \cup {Manifest(k, <<>>) : k \in {"absent", "unparsable", "features_int", "object", "scalar"}}

InitCount ==
    /\ manifest \in CountManifests
    /\ cache = AbsentCache
    /\ TELEGRAM_BOT_TOKEN = FALSE
    /\ TELEGRAM_CHAT_ID = FALSE
    /\ WEBHOOK_URL = FALSE
    /\ trace = <<>>
    /\ milestones = <<>>
    /\ call = [op |-> "count_passing_tests", done |-> FALSE,
               result |-> [raised |-> FALSE, passing |-> 0, total |-> 0]]

CountPassingTests ==
    /\ ~call.done
    /\ call' = [call EXCEPT !.done = TRUE, !.result = count_passing_tests(manifest)]
    /\ UNCHANGED <<manifest, cache, TELEGRAM_BOT_TOKEN, TELEGRAM_CHAT_ID, WEBHOOK_URL,
                   trace, milestones>>

SpecCount == InitCount /\ [][CountPassingTests]_vars

---------------------------------------------------------------------------
(* check_telegram_milestone called on its own.                             *)

\* lists of descriptions, at most one of them longer than 60 characters
CompletedLists ==
    {[i \in 1..n |-> IF i = j THEN "long" ELSE "str"] : n \in 0..MaxCompleted, j \in 0..MaxCompleted}

InitMilestone ==
    /\ manifest = Manifest("absent", <<>>)
    /\ cache = AbsentCache
    /\ TELEGRAM_BOT_TOKEN \in BOOLEAN
    /\ TELEGRAM_CHAT_ID \in BOOLEAN
    /\ WEBHOOK_URL = FALSE
    /\ trace = <<>>
    /\ milestones = <<>>
    /\ \E passing \in 0..MaxCount, previous \in 0..MaxCount, total \in {0, MaxCount},
          completed_tests \in CompletedLists :
         call = [op |-> "check_telegram_milestone", done |-> FALSE,
                 passing |-> passing, previous |-> previous, total |-> total,
                 completed_tests |-> completed_tests,
                 result |-> [raised |-> FALSE, sent |-> <<>>]]

CheckTelegramMilestone ==
    /\ ~call.done
    /\ \E delivered \in BOOLEAN :
         call' = [call EXCEPT !.done = TRUE,
                              !.result = check_telegram_milestone(
                                  call.passing, call.previous, call.total,
                                  call.completed_tests, delivered)]
    /\ UNCHANGED <<manifest, cache, TELEGRAM_BOT_TOKEN, TELEGRAM_CHAT_ID, WEBHOOK_URL,
                   trace, milestones>>

SpecMilestone == InitMilestone /\ [][CheckTelegramMilestone]_vars

---------------------------------------------------------------------------
(* Properties.                                                             *)

Runs == {trace[i] : i \in DOMAIN trace}

\* the attempts without their delivery outcome
Attempts(sent) == [i \in DOMAIN sent |-> [sink |-> sent[i].sink, message |-> sent[i].message]]

\* the posts made to one sink
Posts(sent, sink) == {i \in DOMAIN sent : sent[i].sink = sink}

MilestoneCallDone == call.op = "check_telegram_milestone" /\ call.done

\* C1: with both chat credentials configured, check_telegram_milestone attempts
\* exactly one chat delivery when floor(passing/10) > floor(previous/10), reporting
\* the milestone floor(passing/10)*10, and attempts none otherwise.
C1_MilestoneTrigger ==
    (MilestoneCallDone /\ TELEGRAM_BOT_TOKEN /\ TELEGRAM_CHAT_ID) =>
        LET sent == call.result.sent
        IN  /\ ~call.result.raised
            /\ IF call.passing \div 10 > call.previous \div 10
               THEN /\ Len(sent) = 1
                    /\ sent[1].sink = "chat"
                    /\ sent[1].message.milestone = (call.passing \div 10) * 10
               ELSE sent = <<>>

\* 9 -> 10 has triggered at milestone 10
C1_Witness ==
    /\ MilestoneCallDone /\ TELEGRAM_BOT_TOKEN /\ TELEGRAM_CHAT_ID
    /\ call.previous = 9 /\ call.passing = 10
    /\ Len(call.result.sent) = 1
    /\ call.result.sent[1].message.milestone = 10

\* C2: a second run in succession, the manifest unchanged in between, sends
\* no chat message and no webhook post and leaves the cache file as the first
\* run left it.
C2_Idempotence ==
    \A i \in DOMAIN trace :
        i > 1 => /\ trace[i].sent = <<>>
                 /\ trace[i].after = trace[i - 1].after

\* a second run after a first one that called both sinks and wrote the cache
C2_Witness ==
    /\ Len(trace) >= 2
    /\ Len(trace[1].sent) = 2
    /\ trace[1].after # trace[1].before
    /\ ~trace[2].raised

\* C3: no run raises an exception to its caller, whatever the manifest and the
\* cache hold; an absent or unparsable manifest counts as (0, 0).
C3_NoException ==
    \A run \in Runs :
        /\ ~run.raised
        /\ manifest.kind \in {"absent", "unparsable"} => run.passing = 0 /\ run.total = 0

CountCallDone == call.op = "count_passing_tests" /\ call.done

\* the records of the sequence the manifest holds: the bare list, or the list
\* under "features"
Records(m) == IF m.kind \in {"list", "features_list"} THEN m.items ELSE <<>>

\* the positions (0-based) of the structured records whose passes is the boolean true
StrictlyPassing(m) ==
    {i - 1 : i \in {j \in DOMAIN Records(m) : Records(m)[j].isDict /\ Records(m)[j].passes = "true"}}

\* C4: count_passing_tests returns (passing, total) with total the number of
\* records of the sequence (0 for any other shape) and passing the number of
\* structured records whose passes is strictly the boolean true, 0 <= passing <= total
\* (stated of the calls that return).
C4_StrictCount ==
    (CountCallDone /\ ~call.result.raised) =>
        /\ call.result.total = Len(Records(manifest))
        /\ call.result.passing = Cardinality(StrictlyPassing(manifest))
        /\ 0 <= call.result.passing /\ call.result.passing <= call.result.total

\* the positions count_passing_tests counts as passing
CountedPassing(m) ==
    {i - 1 : i \in {j \in DOMAIN Records(m) : Records(m)[j].isDict /\ IsTruthy(Records(m)[j])}}

\* C5: every cache record written by send_progress_webhook has count equal to
\* the number of entries of passing_indices, every index in [0, total), and
\* passing_indices the positions of the records counted as passing in the run.
C5_CacheRecord ==
    \A run \in Runs :
        (run.called /\ run.after # run.before) =>
            /\ run.after.count = Len(run.after.indices)
            /\ \A i \in Range(run.after.indices) : 0 <= i /\ i < run.total
            /\ Range(run.after.indices) = CountedPassing(manifest)

\* a cache file the read of which fails: not JSON, no JSON object, or with a
\* passing_indices that set() rejects
Corrupted(c) == c.kind \in {"unparsable", "nondict"} \/ (c.kind = "dict" /\ c.idxType = "int")

\* the run of send_progress_webhook that starts with no cache file
FromNoCache(run) ==
    send_progress_webhook(run.passing, run.total, AbsentCache, manifest, TRUE, TRUE)

\* C6: a run that starts with a corrupted cache sends the same notifications and
\* leaves the same cache file content as the run that starts with no cache file,
\* for every passing count (stated of the runs that return).
C6_SameAsMissing ==
    \A run \in Runs :
        (run.called /\ Corrupted(run.before) /\ ~run.raised) =>
            /\ Attempts(run.sent) = Attempts(FromNoCache(run).sent)
            /\ run.after = FromNoCache(run).cache

\* C6 as amended: a run that starts with a corrupted cache sends the same
\* notifications and ends the same way as the run that starts with no cache
\* file; it writes the cache exactly when that run writes it and passing > 0,
\* and then writes the same content; with passing = 0 the corrupted file
\* stays as it is while the run from no cache file writes the initial record.
C6_RecoveredOnIncrease ==
    \A run \in Runs :
        (run.called /\ Corrupted(run.before)) =>
            LET missing == FromNoCache(run)
            IN  /\ Attempts(run.sent) = Attempts(missing.sent)
                /\ run.raised = missing.raised
                /\ run.after # run.before <=> (missing.cache # AbsentCache /\ run.passing > 0)
                /\ run.after # run.before => run.after = missing.cache
                /\ run.passing = 0 => missing.cache = WrittenCache(0, <<>>)

\* a run from a corrupted cache has notified and replaced the cache
C6_Witness ==
    \E run \in Runs :
        /\ run.called /\ Corrupted(run.before)
        /\ run.sent # <<>>
        /\ run.after = WrittenCache(run.passing, run.after.indices)

\* the cache file has the shape this code writes, or is an object without a count
Readable(c) == c.kind = "dict" /\ c.countType \in {"int", "absent"} /\ c.idxType \in {"list", "absent"}

\* C7: with an existing, parseable cache and a passing count not greater than
\* the cached count, the cache file is left unchanged and neither sink is
\* called; so the cached count never decreases from run to run.
C7_NoDecrease ==
    \A run \in Runs :
        Readable(run.before) =>
            /\ Readable(run.after) /\ run.after.count >= run.before.count
            /\ (run.called /\ run.passing <= run.before.count) =>
                   run.after = run.before /\ run.sent = <<>>

\* a run whose passing count has dropped below the cached count
C7_Witness ==
    \E run \in Runs :
        /\ run.called /\ Readable(run.before)
        /\ run.passing < run.before.count
        /\ run.after = run.before

\* C8: when send_progress_webhook starts with no cache file, a cache file exists
\* when it returns and its count is the current passing count, in the increase
\* branch and in the initial-write branch.
C8_FirstRun ==
    \A run \in Runs :
        (run.called /\ run.before = AbsentCache /\ ~run.raised) =>
            /\ run.after.kind = "dict"
            /\ run.after.countType = "int"
            /\ run.after.count = run.passing

\* a first run with nothing passing has written the initial record
C8_Witness ==
    \E run \in Runs :
        /\ run.called /\ run.before = AbsentCache
        /\ run.passing = 0
        /\ run.after = WrittenCache(0, <<>>)

\* C9: in a run of send_progress_webhook a webhook post is attempted exactly
\* when the webhook URL is configured and the passing count is greater than
\* the cached previous count, with previous_passing and
\* tests_completed_this_session the cached count and the difference.
C9_WebhookOnIncrease ==
    \A run \in Runs :
        (run.called /\ ReadCache(run.before).previousType = "int") =>
            LET previous == ReadCache(run.before).previous
                posts == Posts(run.sent, "webhook")
            IN  /\ Cardinality(posts) = IF WEBHOOK_URL /\ run.passing > previous THEN 1 ELSE 0
                /\ \A i \in posts :
                       /\ run.sent[i].message.previous_passing = previous
                       /\ run.sent[i].message.tests_completed_this_session
                              = run.passing - previous

\* C10: each chat milestone delivery attempt carries a milestone number greater
\* than that of every earlier attempt.
C10_MilestonesIncrease ==
    \A i \in DOMAIN milestones : \A j \in DOMAIN milestones :
        i < j => milestones[i] < milestones[j]

\* two milestones were announced, and the latest run announced nothing although
\* the passing count is at a multiple of the interval again
C10_Witness ==
    /\ Len(milestones) = 2
    /\ \E run \in Runs :
         /\ run.called /\ run.sent = <<>>
         /\ run.passing = TELEGRAM_MILESTONE_INTERVAL
         /\ TELEGRAM_BOT_TOKEN /\ TELEGRAM_CHAT_ID

====
